---- MODULE Spec2Model ----
(***************************************************************************)
(* A model of ben-collections' StackList<T, S>: a list of at most S items  *)
(* stored in an array of MaybeUninit<T> slots with a writer_index, its     *)
(* borrowing iterator StackListIter and its consuming iterator IntoIter.   *)
(* Source: src/src/collections/stacklist.rs.                               *)
(*                                                                         *)
(* A value of type T is modelled as an instance [id, val]: val is the data *)
(* the caller passes, id tells two instances with equal data apart (ids    *)
(* are handed out in call order, so they also record the push order).      *)
(***************************************************************************)
EXTENDS Integers, Sequences, FiniteSets

\* Largest capacity S the model instantiates StackList with (0..MaxS).
MaxS == 3
\* Number of push calls of one run: enough to overfill the largest list.
MaxPush == MaxS + 1
\* The data values a caller pushes.
Values == {1, 2}

VARIABLES
    S,          \* the const generic capacity of this instantiation
    list,       \* the StackList: [data, writer_index]
    owner,      \* who holds the StackList: "list", "into_iter", "dropped", "aborted"
    it,         \* the live StackListIter, if any: [alive, reader_index]
    it_out,     \* what the live StackListIter has yielded so far
    into_snap,  \* what iter() would have yielded when into_iter() was called
    into_out,   \* what the IntoIter has yielded so far
    popRun,     \* the values returned by the pops since the last successful push
    ret,        \* the last call and what it returned
    pre,        \* the StackList as it was when the last call began
    prevRet,    \* the call before the last one, when it was a push or a pop
    prevCount,  \* the writer_index that call began with
    nextId,     \* number of push calls made so far
    pushedOk,   \* the instances whose push returned Ok
    rejected,   \* the instances whose push returned Err
    yielded,    \* the instances handed out by pop / IntoIter::next, in order
    finalized,  \* the instances whose destructor the code has run, in order: the
                \* argument of a refused push, and what the drop glue destroys
    uninit_read,\* whether a slot holding no value was ever read as a T
    lastMut,    \* the last push (Ok or Err) or successful pop: "pushOk", "pushErr", "popSome"
    preMut,     \* lastMut as it was when the last call began
    lastPass    \* the last complete iter() pass since a push or pop: [st, out];
                \* st is "valid" after one pass, "second" once a further iter()
                \* was made, "again" when that pass is complete too, "popped"
                \* when a pop call followed, "none" otherwise

vars == <<S, list, owner, it, it_out, into_snap, into_out, popRun, ret, pre,
          prevRet, prevCount, nextId, pushedOk, rejected, yielded, finalized, uninit_read,
          lastMut, preMut, lastPass>>

\* A MaybeUninit<T> slot that holds no value.
Uninit == [id |-> 0, val |-> 0]

\* The instance made by the id-th push call with data v.
Item(id, v) == [id |-> id, val |-> v]

\* What a call returns: res is the variant, val the T it carries, n a number.
Ret(op, res, val, n) == [op |-> op, res |-> res, val |-> val, n |-> n]

\* No push or pop call.
NoCall == Ret("none", "Ok", Uninit, 0)

\* No complete iter() pass since the last push or pop.
NoPass == [st |-> "none", out |-> << >>]

\* An array index is in bounds (Rust panics otherwise).
InBounds(l, i) == i \in DOMAIN l.data

\* StackList::new: S slots holding nothing, writer_index 0.
new == [data |-> [i \in 0 .. S - 1 |-> Uninit], writer_index |-> 0]

\* Mutant of is_full: compares with the last index instead of the capacity.
is_full_offby1(l) == l.writer_index = S - 1

\* Mutant of is_full: full only beyond the capacity.
is_full_gt(l) == l.writer_index > S

\* StackList::is_full
is_full(l) == l.writer_index = S

\* Mutant of is_empty: the body of is_full copied.
is_empty_copy(l) == l.writer_index = S

\* StackList::is_empty
is_empty(l) == l.writer_index = 0

\* Mutant of push: no is_full check before the write.
push_nocheck(l, item) ==
    IF ~InBounds(l, l.writer_index) THEN [list |-> l, res |-> "Panic"]
    ELSE [list |-> [data |-> [l.data EXCEPT ![l.writer_index] = item],
                    writer_index |-> l.writer_index + 1],
          res |-> "Ok"]

\* Mutant of push: writer_index is incremented before the write.
push_inc_first(l, item) ==
    IF l.writer_index = S THEN [list |-> l, res |-> "Err"]
    ELSE LET w == l.writer_index + 1 IN
         IF ~InBounds(l, w)
         THEN [list |-> [l EXCEPT !.writer_index = w], res |-> "Panic"]
         ELSE [list |-> [data |-> [l.data EXCEPT ![w] = item], writer_index |-> w],
               res |-> "Ok"]

\* Mutant of push: the slot is written but writer_index is not incremented.
push_noinc(l, item) ==
    IF l.writer_index = S THEN [list |-> l, res |-> "Err"]
    ELSE [list |-> [l EXCEPT !.data = [l.data EXCEPT ![l.writer_index] = item]],
          res |-> "Ok"]

\* Mutant of push: writer_index is incremented before the is_full check.
push_err_inc(l, item) ==
    IF l.writer_index = S
    THEN [list |-> [l EXCEPT !.writer_index = l.writer_index + 1], res |-> "Err"]
    ELSE IF ~InBounds(l, l.writer_index) THEN [list |-> l, res |-> "Panic"]
    ELSE [list |-> [data |-> [l.data EXCEPT ![l.writer_index] = item],
                    writer_index |-> l.writer_index + 1],
          res |-> "Ok"]

\* StackList::push: Err(ListFull) when full, else write the slot at
\* writer_index and increment it.
push(l, item) ==
    IF is_full(l) THEN [list |-> l, res |-> "Err"]
    ELSE IF ~InBounds(l, l.writer_index) THEN [list |-> l, res |-> "Panic"]
    ELSE [list |-> [data |-> [l.data EXCEPT ![l.writer_index] = item],
                    writer_index |-> l.writer_index + 1],
          res |-> "Ok"]

\* Mutant of pop: no is_empty check before the decrement.
pop_nocheck(l) ==
    LET w == l.writer_index - 1 IN
    IF ~InBounds(l, w)
    THEN [list |-> [l EXCEPT !.writer_index = w], res |-> "Panic", val |-> Uninit]
    ELSE [list |-> [data |-> [l.data EXCEPT ![w] = Uninit], writer_index |-> w],
          res |-> "Some", val |-> l.data[w]]

\* Mutant of pop: the slot at writer_index is taken before the decrement.
pop_read_first(l) ==
    IF l.writer_index = 0 THEN [list |-> l, res |-> "None", val |-> Uninit]
    ELSE LET w == l.writer_index IN
         IF ~InBounds(l, w)
         THEN [list |-> l, res |-> "Panic", val |-> Uninit]
         ELSE [list |-> [data |-> [l.data EXCEPT ![w] = Uninit], writer_index |-> w - 1],
               res |-> "Some", val |-> l.data[w]]

\* Mutant of pop: the top is returned but stays in the list.
pop_keep(l) ==
    IF l.writer_index = 0 THEN [list |-> l, res |-> "None", val |-> Uninit]
    ELSE IF ~InBounds(l, l.writer_index - 1)
    THEN [list |-> l, res |-> "Panic", val |-> Uninit]
    ELSE [list |-> l, res |-> "Some", val |-> l.data[l.writer_index - 1]]

\* Mutant of pop: the oldest element is taken and the others move down.
pop_front(l) ==
    IF l.writer_index = 0 THEN [list |-> l, res |-> "None", val |-> Uninit]
    ELSE LET w == l.writer_index - 1 IN
         IF ~InBounds(l, w)
         THEN [list |-> l, res |-> "Panic", val |-> Uninit]
         ELSE [list |-> [data |-> [i \in DOMAIN l.data |->
                                     IF i < w THEN l.data[i + 1]
                                     ELSE IF i = w THEN Uninit ELSE l.data[i]],
                         writer_index |-> w],
               res |-> "Some", val |-> l.data[0]]

\* StackList::pop: None when empty, else decrement writer_index, replace the
\* slot there by an uninitialised one and return what it held. The usize
\* subtraction is guarded by is_empty, so it does not wrap.
pop(l) ==
    IF is_empty(l) THEN [list |-> l, res |-> "None", val |-> Uninit]
    ELSE LET w == l.writer_index - 1 IN
         IF ~InBounds(l, w)
         THEN [list |-> [l EXCEPT !.writer_index = w], res |-> "Panic", val |-> Uninit]
         ELSE [list |-> [data |-> [l.data EXCEPT ![w] = Uninit], writer_index |-> w],
               res |-> "Some", val |-> l.data[w]]

\* Mutant of iter: the reader starts at index 1.
iter_from1(l) == [alive |-> TRUE, reader_index |-> 1]

\* StackList::iter: a StackListIter at reader_index 0.
iter(l) == [alive |-> TRUE, reader_index |-> 0]

\* The state of `it` when no StackListIter is alive.
NoIter == [alive |-> FALSE, reader_index |-> 0]

\* Mutant of StackListIter::next: the end is the capacity, not writer_index.
next_to_capacity(i, l) ==
    IF i.reader_index = S
    THEN [it |-> i, res |-> "None", val |-> Uninit]
    ELSE IF ~InBounds(l, i.reader_index)
    THEN [it |-> i, res |-> "Panic", val |-> Uninit]
    ELSE [it |-> [i EXCEPT !.reader_index = i.reader_index + 1],
          res |-> "Some", val |-> l.data[i.reader_index]]

\* Mutant of StackListIter::next: reader_index is reset at the end.
next_restart(i, l) ==
    IF i.reader_index = l.writer_index
    THEN [it |-> [i EXCEPT !.reader_index = 0], res |-> "None", val |-> Uninit]
    ELSE IF ~InBounds(l, i.reader_index)
    THEN [it |-> i, res |-> "Panic", val |-> Uninit]
    ELSE [it |-> [i EXCEPT !.reader_index = i.reader_index + 1],
          res |-> "Some", val |-> l.data[i.reader_index]]

\* StackListIter::next: None at writer_index, else the slot at reader_index,
\* and reader_index incremented.
StackListIter_next(i, l) ==
    IF i.reader_index = l.writer_index
    THEN [it |-> i, res |-> "None", val |-> Uninit]
    ELSE IF ~InBounds(l, i.reader_index)
    THEN [it |-> i, res |-> "Panic", val |-> Uninit]
    ELSE [it |-> [i EXCEPT !.reader_index = i.reader_index + 1],
          res |-> "Some", val |-> l.data[i.reader_index]]

\* StackListIter::size_hint: the number it reports as lower and upper bound.
size_hint(i, l) == (l.writer_index - i.reader_index) + 1

\* Mutant of IntoIter::next: the top is returned but left in the list.
IntoIter_next_peek(l) ==
    IF l.writer_index = 0 THEN [list |-> l, res |-> "None", val |-> Uninit]
    ELSE [list |-> l, res |-> "Some", val |-> l.data[l.writer_index - 1]]

\* IntoIter::next: pop on the wrapped list.
IntoIter_next(l) == pop(l)

\* The destructors run when a StackList goes out of scope: StackList has no
\* Drop impl and its fields are an array of MaybeUninit<T>, which never drops
\* its content, and a usize.
drop_glue(l) == << >>

\* Everything a StackListIter yields from state i on, in order.
RECURSIVE IterFrom(_, _, _)
IterFrom(i, l, fuel) ==
    LET r == StackListIter_next(i, l) IN
    IF r.res # "Some" \/ fuel = 0 THEN << >>
    ELSE <<r.val>> \o IterFrom(r.it, l, fuel - 1)

\* Everything a fresh iter() yields.
IterAll(l) == IterFrom(iter(l), l, MaxS + 2)

Init ==
    /\ S \in 0 .. MaxS
    /\ list = new
    /\ owner = "list"
    /\ it = NoIter
    /\ it_out = << >>
    /\ into_snap = << >>
    /\ into_out = << >>
    /\ popRun = << >>
    /\ ret = Ret("new", "Ok", Uninit, 0)
    /\ pre = list
    /\ prevRet = NoCall
    /\ prevCount = 0
    /\ nextId = 0
    /\ pushedOk = {}
    /\ rejected = {}
    /\ yielded = << >>
    /\ finalized = << >>
    /\ uninit_read = FALSE
    /\ lastMut = "none"
    /\ preMut = "none"
    /\ lastPass = NoPass

\* What every call records: the list and the last mutation it began with, and
\* the call before it when that was a push or a pop.
Called ==
    /\ pre' = list
    /\ preMut' = lastMut
    /\ prevRet' = IF ret.op \in {"push", "pop"} THEN ret ELSE NoCall
    /\ prevCount' = IF ret.op \in {"push", "pop"} THEN pre.writer_index ELSE 0

\* The owner after a call returning res: a panic aborts the program.
AfterCall(res) == IF res = "Panic" THEN "aborted" ELSE owner

\* list.push(Item(nextId + 1, v)); needs &mut, so no StackListIter is alive.
\* The argument is moved into push: on Err it is not given back, it goes out
\* of scope inside push and its destructor runs there.
Push(v) ==
    /\ owner = "list" /\ ~it.alive /\ nextId < MaxPush
    /\ LET item == Item(nextId + 1, v)
           r == push(list, item) IN
        /\ list' = r.list
        /\ ret' = Ret("push", r.res, item, 0)
        /\ owner' = AfterCall(r.res)
        /\ pushedOk' = IF r.res = "Ok" THEN pushedOk \cup {item} ELSE pushedOk
        /\ rejected' = IF r.res = "Err" THEN rejected \cup {item} ELSE rejected
        /\ finalized' = IF r.res = "Err" THEN Append(finalized, item) ELSE finalized
        /\ popRun' = IF r.res = "Ok" THEN << >> ELSE popRun
        /\ lastMut' = IF r.res = "Ok" THEN "pushOk"
                      ELSE IF r.res = "Err" THEN "pushErr" ELSE lastMut
    /\ lastPass' = NoPass
    /\ nextId' = nextId + 1
    /\ Called
    /\ UNCHANGED <<S, it, it_out, into_snap, into_out, yielded, uninit_read>>

\* list.pop(); needs &mut, so no StackListIter is alive.
Pop ==
    /\ owner = "list" /\ ~it.alive
    /\ LET r == pop(list) IN
        /\ list' = r.list
        /\ ret' = Ret("pop", r.res, r.val, 0)
        /\ owner' = AfterCall(r.res)
        /\ yielded' = IF r.res = "Some" THEN Append(yielded, r.val) ELSE yielded
        /\ popRun' = IF r.res = "Some" THEN Append(popRun, r.val) ELSE popRun
        /\ uninit_read' = (uninit_read \/ (r.res = "Some" /\ r.val = Uninit))
        /\ lastMut' = IF r.res = "Some" THEN "popSome" ELSE lastMut
    /\ lastPass' = IF lastPass.st \in {"valid", "second", "again"}
                   THEN [lastPass EXCEPT !.st = "popped"]
                   ELSE NoPass
    /\ Called
    /\ UNCHANGED <<S, it, it_out, into_snap, into_out, nextId, pushedOk, rejected, finalized>>

\* list.is_full()
IsFull ==
    /\ owner = "list"
    /\ ret' = Ret("is_full", IF is_full(list) THEN "true" ELSE "false", Uninit, 0)
    /\ Called
    /\ UNCHANGED <<S, list, owner, it, it_out, into_snap, into_out, popRun, nextId,
                   pushedOk, rejected, yielded, finalized, uninit_read,
                   lastMut, lastPass>>

\* list.is_empty()
IsEmpty ==
    /\ owner = "list"
    /\ ret' = Ret("is_empty", IF is_empty(list) THEN "true" ELSE "false", Uninit, 0)
    /\ Called
    /\ UNCHANGED <<S, list, owner, it, it_out, into_snap, into_out, popRun, nextId,
                   pushedOk, rejected, yielded, finalized, uninit_read,
                   lastMut, lastPass>>

\* list.iter(): a fresh StackListIter (the previous one, if any, is let go).
Iter ==
    /\ owner = "list"
    /\ it' = iter(list)
    /\ it_out' = << >>
    /\ lastPass' = IF lastPass.st \in {"valid", "again"}
                   THEN [lastPass EXCEPT !.st = "second"] ELSE lastPass
    /\ ret' = Ret("iter", "Ok", Uninit, 0)
    /\ Called
    /\ UNCHANGED <<S, list, owner, into_snap, into_out, popRun, nextId, pushedOk,
                   rejected, yielded, finalized, uninit_read, lastMut>>

\* Mutant of next() on the live StackListIter: the value is moved out of its
\* slot (assume_init on a replaced slot, as pop does) instead of borrowed.
IterNext_take ==
    /\ owner = "list" /\ it.alive
    /\ LET r == StackListIter_next(it, list) IN
        /\ it' = r.it
        /\ list' = IF r.res = "Some"
                   THEN [list EXCEPT !.data = [list.data EXCEPT ![it.reader_index] = Uninit]]
                   ELSE list
        /\ ret' = Ret("iter_next", r.res, r.val, 0)
        /\ owner' = AfterCall(r.res)
        /\ it_out' = IF r.res = "Some" THEN Append(it_out, r.val) ELSE it_out
        /\ uninit_read' = (uninit_read \/ (r.res = "Some" /\ r.val = Uninit))
        /\ lastPass' = IF r.res # "None" \/ lastPass.st \in {"valid", "again"}
                       THEN lastPass
                       ELSE IF lastPass.st = "second"
                       THEN [lastPass EXCEPT !.st = "again"]
                       ELSE [st |-> "valid", out |-> it_out]
    /\ Called
    /\ UNCHANGED <<S, into_snap, into_out, popRun, nextId, pushedOk, rejected,
                   yielded, finalized, lastMut>>

\* next() on the live StackListIter.
IterNext ==
    /\ owner = "list" /\ it.alive
    /\ LET r == StackListIter_next(it, list) IN
        /\ it' = r.it
        /\ ret' = Ret("iter_next", r.res, r.val, 0)
        /\ owner' = AfterCall(r.res)
        /\ it_out' = IF r.res = "Some" THEN Append(it_out, r.val) ELSE it_out
        /\ uninit_read' = (uninit_read \/ (r.res = "Some" /\ r.val = Uninit))
        /\ lastPass' = IF r.res # "None" \/ lastPass.st \in {"valid", "again"}
                       THEN lastPass
                       ELSE IF lastPass.st = "second"
                       THEN [lastPass EXCEPT !.st = "again"]
                       ELSE [st |-> "valid", out |-> it_out]
    /\ Called
    /\ UNCHANGED <<S, list, into_snap, into_out, popRun, nextId, pushedOk, rejected,
                   yielded, finalized, lastMut>>

\* size_hint() on the live StackListIter.
SizeHint ==
    /\ owner = "list" /\ it.alive
    /\ ret' = Ret("size_hint", "Ok", Uninit, size_hint(it, list))
    /\ Called
    /\ UNCHANGED <<S, list, owner, it, it_out, into_snap, into_out, popRun, nextId,
                   pushedOk, rejected, yielded, finalized, uninit_read,
                   lastMut, lastPass>>

\* The live StackListIter goes out of scope: the borrow of the list ends.
IterDrop ==
    /\ owner = "list" /\ it.alive
    /\ it' = NoIter
    /\ it_out' = << >>
    /\ ret' = Ret("iter_drop", "Ok", Uninit, 0)
    /\ Called
    /\ UNCHANGED <<S, list, owner, into_snap, into_out, popRun, nextId, pushedOk,
                   rejected, yielded, finalized, uninit_read,
                   lastMut, lastPass>>

\* list.into_iter(): the list moves into an IntoIter; no borrow may be alive.
IntoIter ==
    /\ owner = "list" /\ ~it.alive
    /\ owner' = "into_iter"
    /\ into_snap' = IterAll(list)
    /\ into_out' = << >>
    /\ ret' = Ret("into_iter", "Ok", Uninit, 0)
    /\ lastPass' = NoPass
    /\ Called
    /\ UNCHANGED <<S, list, it, it_out, popRun, nextId, pushedOk, rejected, yielded,
                   finalized, uninit_read, lastMut>>

\* next() on the IntoIter.
IntoIterNext ==
    /\ owner = "into_iter"
    /\ LET r == IntoIter_next(list) IN
        /\ list' = r.list
        /\ ret' = Ret("into_next", r.res, r.val, 0)
        /\ owner' = AfterCall(r.res)
        /\ yielded' = IF r.res = "Some" THEN Append(yielded, r.val) ELSE yielded
        /\ into_out' = IF r.res = "Some" THEN Append(into_out, r.val) ELSE into_out
        /\ popRun' = IF r.res = "Some" THEN Append(popRun, r.val) ELSE popRun
        /\ uninit_read' = (uninit_read \/ (r.res = "Some" /\ r.val = Uninit))
        /\ lastMut' = IF r.res = "Some" THEN "popSome" ELSE lastMut
    /\ Called
    /\ UNCHANGED <<S, it, it_out, into_snap, nextId, pushedOk, rejected, finalized,
                   lastPass>>

\* The StackList, or the IntoIter wrapping it, goes out of scope.
Drop ==
    /\ owner \in {"list", "into_iter"} /\ ~it.alive
    /\ owner' = "dropped"
    /\ finalized' = finalized \o drop_glue(list)
    /\ ret' = Ret("drop", "Ok", Uninit, 0)
    /\ lastPass' = NoPass
    /\ Called
    /\ UNCHANGED <<S, list, it, it_out, into_snap, into_out, popRun, nextId, pushedOk,
                   rejected, yielded, uninit_read, lastMut>>

Next ==
    \/ \E v \in Values : Push(v)
    \/ Pop
    \/ IsFull
    \/ IsEmpty
    \/ Iter
    \/ IterNext
    \/ SizeHint
    \/ IterDrop
    \/ IntoIter
    \/ IntoIterNext
    \/ Drop

Spec == Init /\ [][Next]_vars

(***************************************************************************)
(* Auxiliary operators of the properties.                                  *)
(***************************************************************************)

\* The element count.
Count == list.writer_index

\* The slot at index i, as the properties read it.
At(l, i) == IF InBounds(l, i) THEN l.data[i] ELSE Uninit

\* The slots [0, writer_index) of l, oldest first.
Live(l) == [i \in 1 .. l.writer_index |-> At(l, i - 1)]

Range(s) == {s[i] : i \in 1 .. Len(s)}

Reverse(s) == [i \in 1 .. Len(s) |-> s[Len(s) + 1 - i]]

Min(a, b) == IF a < b THEN a ELSE b

\* How often x occurs in the sequence s.
Occurs(s, x) == Cardinality({i \in 1 .. Len(s) : s[i] = x})

\* The ids of s increase strictly: s is in push order.
Ascending(s) == \A i \in 1 .. Len(s) - 1 : s[i].id < s[i + 1].id

\* The instance of the non-empty set X that was pushed last.
Newest(X) == CHOOSE x \in X : \A y \in X : y.id <= x.id

\* The instances of X in push order.
RECURSIVE InPushOrder(_)
InPushOrder(X) ==
    IF X = {} THEN << >>
    ELSE LET x == Newest(X) IN Append(InPushOrder(X \ {x}), x)

\* The instances pushed and not handed out since, from the calls' results alone.
Surviving == pushedOk \ Range(yielded)

\* The same, before the last call handed one out.
SurvivingBefore == pushedOk \ Range(SubSeq(yielded, 1, Len(yielded) - 1))

(***************************************************************************)
(* Properties.                                                             *)
(***************************************************************************)

\* C1: in every state reached by push and pop calls, successful or not, the
\* element count writer_index is at least 0 and at most the capacity S.
C1_CountInRange == 0 <= list.writer_index /\ list.writer_index <= S

\* C1 witness: a full list of capacity > 0 has just refused a push, after
\* pops had taken elements out.
C1_Witness ==
    /\ S > 0 /\ list.writer_index = S
    /\ ret.op = "push" /\ ret.res = "Err"
    /\ Len(yielded) > 0

\* C2: a push on a full list returns Err(ListFull) and changes nothing: the
\* count and every slot are as before, and the rejected instance is in no
\* slot and is never returned by a pop or yielded by an iterator.
C2_FullPushRejected ==
    /\ (ret.op = "push" /\ pre.writer_index = S) =>
          /\ ret.res = "Err"
          /\ list = pre
          /\ ret.val \in rejected
    /\ \A x \in rejected :
          /\ \A i \in 0 .. S - 1 : At(list, i) # x
          /\ x \notin Range(yielded)
          /\ x \notin Range(it_out)
          /\ x \notin Range(into_out)

\* C2 witness: after a push was rejected, a pop has returned an element.
C2_Witness ==
    /\ rejected # {}
    /\ ret.op = "pop" /\ ret.res = "Some"
    /\ prevRet.op = "push" /\ prevRet.res = "Err"

\* C3: a push on a list that is not full returns Ok, writes the value into
\* the slot at the old count and increases the count by exactly 1; so as long
\* as nothing was popped, the first S pushes succeed, every push after them
\* fails, and the count stays at S.
C3_PushStores ==
    /\ (ret.op = "push" /\ pre.writer_index < S) =>
          /\ ret.res = "Ok"
          /\ list.writer_index = pre.writer_index + 1
          /\ list.data = [pre.data EXCEPT ![pre.writer_index] = ret.val]
    /\ (yielded = << >> /\ owner # "aborted") =>
          /\ list.writer_index = Min(nextId, S)
          /\ Cardinality(pushedOk) = Min(nextId, S)
          /\ Cardinality(rejected) = nextId - Min(nextId, S)
          /\ \A x \in pushedOk : x.id <= S
          /\ \A x \in rejected : x.id > S

\* C3 witness: S pushes filled an empty list of capacity > 0 and the
\* (S+1)-th, with no pop in between, was refused.
C3_Witness ==
    /\ S > 0 /\ nextId = S + 1 /\ yielded = << >>
    /\ ret.op = "push" /\ ret.res = "Err"
    /\ list.writer_index = S

\* C4: a pop on a non-empty list returns Some(x), x the instance pushed last
\* among those not yet popped, and decreases the count by exactly 1; the
\* pops since the last successful push returned their values in reverse push
\* order, and what is left is older than all of them.
C4_PopLifo ==
    /\ (ret.op = "pop" /\ pre.writer_index > 0) =>
          /\ ret.res = "Some"
          /\ SurvivingBefore # {}
          /\ ret.val = Newest(SurvivingBefore)
          /\ list.writer_index = pre.writer_index - 1
    /\ owner # "aborted" =>
          /\ Ascending(Live(list) \o Reverse(popRun))
          /\ Range(Live(list)) = Surviving

\* C4 witness: two pops in a row returned elements, after an earlier pop and
\* later pushes, and an element is left.
C4_Witness ==
    /\ ret.op = "pop" /\ ret.res = "Some"
    /\ Len(popRun) >= 2
    /\ Len(yielded) > Len(popRun)
    /\ list.writer_index > 0

\* C5 as stated: a pop on an empty list returns None and changes nothing,
\* however often it is repeated, and the push after it is accepted.
C5_Original ==
    /\ (ret.op = "pop" /\ pre.writer_index = 0) =>
          /\ ret.res = "None"
          /\ list = pre
          /\ list.writer_index = 0
    /\ (ret.op = "push" /\ prevRet.op = "pop" /\ prevRet.res = "None") =>
          ret.res = "Ok"

\* C5 amended: a pop on an empty list returns None and changes nothing (the
\* count stays 0, no slot is read or written), however often it is repeated,
\* and when S > 0 the push after it is accepted.
C5_EmptyPopNoMutation ==
    /\ (ret.op = "pop" /\ pre.writer_index = 0) =>
          /\ ret.res = "None"
          /\ ret.val = Uninit
          /\ list = pre
          /\ list.writer_index = 0
          /\ ~uninit_read
    /\ (ret.op = "push" /\ prevRet.op = "pop" /\ prevRet.res = "None" /\ S > 0) =>
          /\ ret.res = "Ok"
          /\ list.writer_index = 1

\* C5 witness: after two pops on an empty list of capacity > 0, a push was
\* accepted.
C5_Witness ==
    /\ S > 0
    /\ ret.op = "push" /\ ret.res = "Ok"
    /\ prevRet.op = "pop" /\ prevRet.res = "None"
    /\ list.writer_index = 1

\* C6 as stated: in any state, a push immediately followed by a pop leaves
\* the count as it was before the push, and the pop returns the pushed value.
C6_Original ==
    (ret.op = "pop" /\ prevRet.op = "push") =>
        /\ ret.res = "Some"
        /\ ret.val = prevRet.val
        /\ list.writer_index = prevCount

\* C6 amended: in any state that is not full (count < S), a push immediately
\* followed by a pop leaves the count as it was before the push, and the pop
\* returns the pushed value.
C6_RoundTrip ==
    (ret.op = "pop" /\ prevRet.op = "push" /\ prevCount < S) =>
        /\ prevRet.res = "Ok"
        /\ ret.res = "Some"
        /\ ret.val = prevRet.val
        /\ list.writer_index = prevCount

\* C6 witness: a push on a list that was neither empty nor full, then a pop.
C6_Witness ==
    /\ ret.op = "pop" /\ prevRet.op = "push"
    /\ 0 < prevCount /\ prevCount < S
    /\ ret.val = prevRet.val

\* C7: is_empty() returns true exactly when the count is 0 and is_full()
\* exactly when it is S; when S > 0 they are never both true, and when
\* 0 < count < S both are false.
C7_EmptyFullQueries ==
    /\ ret.op = "is_empty" => ((ret.res = "true") <=> (list.writer_index = 0))
    /\ ret.op = "is_full" => ((ret.res = "true") <=> (list.writer_index = S))
    /\ owner = "list" =>
          /\ is_empty(list) <=> (list.writer_index = 0)
          /\ is_full(list) <=> (list.writer_index = S)
          /\ S > 0 => ~(is_empty(list) /\ is_full(list))
          /\ (0 < list.writer_index /\ list.writer_index < S) =>
                (~is_empty(list) /\ ~is_full(list))

\* C7 witness: is_full() answered true on a list of capacity >= 2 filled by
\* pushes.
C7_Witness ==
    /\ S >= 2
    /\ ret.op = "is_full" /\ ret.res = "true"
    /\ list.writer_index = S

\* C8: a fresh iter() yields exactly the live elements, oldest first (slot 0
\* first, slot count-1 last): count items, then None.
C8_IterPushOrder ==
    LET all == IterAll(list)
        expected == InPushOrder(Surviving)
    IN /\ owner = "list" => all = expected
       /\ owner = "list" => Len(all) = list.writer_index
       /\ (owner = "list" /\ it.alive) =>
             /\ it_out = SubSeq(expected, 1, it.reader_index)
             /\ it_out = SubSeq(Live(list), 1, it.reader_index)
       /\ (ret.op = "iter_next" /\ ret.res = "Some") =>
             ret.val = At(list, Len(it_out) - 1)
       /\ (ret.op = "iter_next" /\ ret.res = "None") =>
             /\ it_out = expected
             /\ Len(it_out) = list.writer_index

\* C8 witness: an iterator over a list of at least two elements, from which
\* an element had been popped before, has yielded them all and returned None.
C8_Witness ==
    /\ ret.op = "iter_next" /\ ret.res = "None"
    /\ Len(it_out) >= 2
    /\ Len(yielded) >= 1

\* C9: into_iter() yields the live elements newest first, the reverse of the
\* order of iter(): count items, after which the wrapped list is empty and
\* every further next() returns None.
C9_IntoIterPopOrder ==
    owner = "into_iter" =>
        LET n == Len(into_snap)
            k == Len(into_out) IN
        /\ k <= n
        /\ into_out = Reverse(SubSeq(into_snap, n - k + 1, n))
        /\ list.writer_index = n - k
        /\ Live(list) = SubSeq(into_snap, 1, n - k)
        /\ (ret.op = "into_next" /\ ret.res = "None") =>
              /\ pre.writer_index = 0 /\ list.writer_index = 0
              /\ into_out = Reverse(into_snap)
        /\ (ret.op = "into_next" /\ pre.writer_index = 0) => ret.res = "None"

\* C9 witness: an IntoIter over a list of at least two elements, from which
\* an element had been popped before, is exhausted and has returned None.
C9_Witness ==
    /\ owner = "into_iter"
    /\ ret.op = "into_next" /\ ret.res = "None"
    /\ Len(into_out) >= 2
    /\ Len(yielded) > Len(into_out)

\* C10: when a StackList, or the IntoIter wrapping it, is destroyed, each
\* value in the slots [0, count) is finalized exactly once and no other slot
\* is touched: every value pushed successfully is either handed out by pop /
\* into_iter or finalized by the structure, exactly once. (The arguments of
\* refused pushes were destroyed by push and are no slot's value.)
C10_LiveFinalizedOnDrop ==
    owner = "dropped" =>
        /\ \A i \in 0 .. list.writer_index - 1 : Occurs(finalized, At(list, i)) = 1
        /\ \A x \in pushedOk : Occurs(yielded, x) + Occurs(finalized, x) = 1
        /\ \A x \in Range(finalized) \ rejected : x \in Range(Live(list))

\* C11: no uninitialised read: every slot that pop or StackListIter::next
\* reads as a T is live: its index is below the count when the call begins,
\* and it holds a value written by a push and not popped since; the slots at
\* index >= count hold no value and are never read or yielded.
C11_NoUninitRead ==
    /\ ~uninit_read
    /\ (ret.op \in {"pop", "into_next"} /\ ret.res = "Some") =>
          /\ pre.writer_index > 0
          /\ ret.val = At(pre, pre.writer_index - 1)
          /\ ret.val # Uninit
          /\ ret.val \in SurvivingBefore
    /\ (ret.op = "iter_next" /\ ret.res = "Some") =>
          /\ it.reader_index - 1 < list.writer_index
          /\ ret.val = At(list, it.reader_index - 1)
          /\ ret.val # Uninit
          /\ ret.val \in Surviving
    /\ (owner = "list" /\ it.alive) => Range(it_out) \subseteq Surviving
    /\ owner # "aborted" =>
          \A i \in 0 .. S - 1 :
              IF i < list.writer_index THEN At(list, i) \in Surviving
              ELSE At(list, i) = Uninit

\* C11 witness: next() has yielded the only live element of a list whose
\* slot above it was vacated by a pop.
C11_Witness ==
    /\ ret.op = "iter_next" /\ ret.res = "Some"
    /\ Len(yielded) >= 1
    /\ list.writer_index >= 1 /\ list.writer_index < S
    /\ it.reader_index = list.writer_index

\* C12: once pop or IntoIter::next has returned a value, the structure does
\* not retain it: it is returned by no later pop, yielded by no later iter()
\* or into_iter(), and never finalized by the structure; each pushed
\* instance is handed out at most once.
C12_OwnershipTransfer ==
    \A x \in Range(yielded) :
        /\ Occurs(yielded, x) = 1
        /\ x \in pushedOk
        /\ x \notin Range(Live(list))
        /\ (owner = "list" /\ it.alive) => x \notin Range(it_out)
        /\ owner = "into_iter" => Occurs(into_out, x) <= 1
        /\ x \notin Range(finalized)

\* C12 witness: after a pop handed out an element, an IntoIter over what was
\* left has handed out two more.
C12_Witness ==
    /\ ret.op = "into_next" /\ ret.res = "Some"
    /\ Len(into_out) = 2
    /\ Len(yielded) = 3

\* C13: the count equals the number of pushes that returned Ok minus the
\* number of pops that returned Some; failed pushes and empty pops count
\* for nothing.
C13_CountBalance ==
    owner # "aborted" =>
        list.writer_index = Cardinality(pushedOk) - Len(yielded)

\* C13 witness: after a refused push and successful pops, a pop on the empty
\* list returned None.
C13_Witness ==
    /\ ret.op = "pop" /\ ret.res = "None"
    /\ rejected # {}
    /\ Len(yielded) >= 2

\* C14: ListFull is returned only by push and only when count == S; after a
\* failed push every further push fails as long as no pop succeeds, and when
\* S > 0 the first push after a successful pop succeeds; a failed push
\* leaves the list as it was, so pop and iteration go on as if it had not
\* happened.
C14_ListFullRecoverable ==
    /\ ret.res = "Err" =>
          /\ ret.op = "push"
          /\ pre.writer_index = S
          /\ list = pre
          /\ IterAll(list) = InPushOrder(Surviving)
    /\ (ret.op = "push" /\ preMut = "pushErr") => ret.res = "Err"
    /\ (ret.op = "push" /\ preMut = "popSome" /\ S > 0) => ret.res = "Ok"
    /\ (ret.op = "pop" /\ preMut = "pushErr" /\ S > 0) =>
          /\ ret.res = "Some"
          /\ ret.val = Newest(SurvivingBefore)
    /\ (lastMut = "pushErr" /\ owner # "aborted") => list.writer_index = S

\* C14 witness: two pushes in a row were refused, then a pop succeeded and
\* the next push was accepted.
C14_Witness ==
    /\ S > 0
    /\ ret.op = "push" /\ ret.res = "Ok"
    /\ preMut = "popSome"
    /\ Cardinality(rejected) >= 2

\* C15: at every point of a forward iteration size_hint() returns
\* (r, Some(r)) with r the number of items still to be yielded,
\* writer_index - reader_index.
C15_SizeHintExact ==
    ret.op = "size_hint" => ret.n = list.writer_index - it.reader_index

\* C16: the slots [0, count) refine a bounded sequence of length <= S (a the
\* sequence when the last call began, b the sequence after it): a push
\* is an Append when the sequence is shorter than S and leaves it unchanged,
\* returning Err, when it is S long; a pop removes and returns the last
\* element, and leaves it unchanged, returning None, when it is empty; no
\* other call changes it, no call alters a slot below the top, and the
\* sequence always is the surviving values in push order.
C16_Refinement ==
    LET a == Live(pre)
        b == Live(list)
    IN /\ Len(b) <= S
       /\ b = InPushOrder(Surviving)
       /\ \A k \in 0 .. S - 1 : k < list.writer_index - 1 => At(list, k) = At(pre, k)
       /\ ret.op = "push" =>
             IF Len(a) < S
             THEN ret.res = "Ok" /\ b = Append(a, ret.val)
             ELSE ret.res = "Err" /\ b = a
       /\ ret.op \in {"pop", "into_next"} =>
             IF Len(a) > 0
             THEN /\ ret.res = "Some"
                  /\ ret.val = a[Len(a)]
                  /\ b = SubSeq(a, 1, Len(a) - 1)
             ELSE ret.res = "None" /\ b = a
       /\ ret.op \notin {"push", "pop", "into_next"} => b = a

\* C16 witness: on a list of at least two elements a push was refused and
\* the pop after it removed the last element.
C16_Witness ==
    /\ ret.op = "pop" /\ ret.res = "Some"
    /\ prevRet.op = "push" /\ prevRet.res = "Err"
    /\ list.writer_index >= 1

\* C17: is_full, is_empty, iter, next and size_hint leave the list as it
\* was; so a further iter() pass with no push or pop in between yields the
\* same sequence, and a pop after complete passes returns the newest element.
C17_ReadsLeaveListUnchanged ==
    /\ ret.op \in {"is_full", "is_empty", "iter", "iter_next", "size_hint"} =>
          list = pre
    /\ (lastPass.st \in {"valid", "second", "again"} /\ it.alive) =>
          it_out = SubSeq(lastPass.out, 1, Len(it_out))
    /\ (lastPass.st \in {"valid", "second", "again"} /\ ret.op = "iter_next"
          /\ ret.res = "None") =>
          it_out = lastPass.out
    /\ (lastPass.st = "popped" /\ ret.op = "pop") =>
          IF lastPass.out = << >> THEN ret.res = "None"
          ELSE ret.res = "Some" /\ ret.val = lastPass.out[Len(lastPass.out)]

\* C17 witness: a second complete pass over a list of at least two elements
\* has ended.
C17_Witness ==
    /\ lastPass.st = "again"
    /\ ret.op = "iter_next" /\ ret.res = "None"
    /\ Len(lastPass.out) >= 2
    /\ it_out = lastPass.out

\* C18: a StackListIter over count elements keeps reader_index within
\* [0, count]; next() only increases it, by one per item; the call after the
\* last item returns None, and so does every later call, without moving
\* reader_index; only a fresh iter() starts again at slot 0.
C18_IterTerminates ==
    /\ []((owner = "list" /\ it.alive) =>
            /\ 0 <= it.reader_index /\ it.reader_index <= list.writer_index
            /\ it.reader_index = Len(it_out)
            /\ (ret.op = "iter_next" /\ ret.res = "None") =>
                  it.reader_index = list.writer_index
            /\ ret.op = "iter" => it.reader_index = 0)
    /\ [][/\ ret'.op = "iter_next" =>
                /\ it'.reader_index >= it.reader_index
                /\ it.reader_index < list.writer_index =>
                      (ret'.res = "Some" /\ it'.reader_index = it.reader_index + 1)
                /\ it.reader_index = list.writer_index =>
                      (ret'.res = "None" /\ it' = it)
          /\ (ret.op = "iter_next" /\ ret.res = "None" /\ ret'.op = "iter_next") =>
                (ret'.res = "None" /\ it' = it)
          /\ ret'.op = "size_hint" => it' = it
          /\ ret'.op = "iter" => (it'.alive /\ it'.reader_index = 0)]_vars

\* C18 witness: an iterator over a full list of at least two elements, made
\* by a fresh iter() after an earlier complete pass, has returned None.
C18_Witness ==
    /\ ret.op = "iter_next" /\ ret.res = "None"
    /\ pre = list /\ it.reader_index = list.writer_index
    /\ list.writer_index = S /\ S >= 2
    /\ lastPass.st = "again" /\ yielded = << >>

\* C19: with S = 0 the list from new() is empty and full at once, every push
\* returns Err(ListFull), every pop returns None, iter() and into_iter()
\* yield nothing, and no slot is indexed: no call panics.
C19_ZeroCapacity ==
    S = 0 =>
        /\ list = new
        /\ is_empty(list) /\ is_full(list)
        /\ ret.op = "push" => ret.res = "Err"
        /\ ret.op \in {"pop", "into_next", "iter_next"} => ret.res = "None"
        /\ ret.op = "is_full" => ret.res = "true"
        /\ ret.op = "is_empty" => ret.res = "true"
        /\ pushedOk = {} /\ yielded = << >>
        /\ it_out = << >> /\ into_out = << >> /\ into_snap = << >>
        /\ IterAll(list) = << >>
        /\ ret.res # "Panic" /\ owner # "aborted"
        /\ ~uninit_read

\* C19 witness: on a list of capacity 0 a push was refused and the IntoIter
\* made of it returned None.
C19_Witness ==
    /\ S = 0
    /\ rejected # {}
    /\ ret.op = "into_next" /\ ret.res = "None"

====
